---------------------------- MODULE Spec2Model ----------------------------
(***************************************************************************)
(* Recipe generator: the ingredient normalizer and category classifier of  *)
(* project_ingredients_class.py, the ingredient catalog (IngredientManager)*)
(* and the recipe loader, matcher and ranker of recipe.py and              *)
(* project.test.py.                                                        *)
(*                                                                         *)
(* Python strings are modelled as sequences of one-character strings, so   *)
(* that lower(), strip(), split() and the regular expressions act on the   *)
(* characters as the interpreter does.  None is the model value None.      *)
(***************************************************************************)
EXTENDS Integers, Sequences, FiniteSets, TLC

(***************************************************************************)
(* Characters and the str methods the program uses.                        *)
(***************************************************************************)
\* None: no string of characters equals it
None == <<"None">>

LowerSeq ==
  <<"a", "b", "c", "d", "e", "f", "g", "h", "i", "j", "k", "l", "m",
    "n", "o", "p", "q", "r", "s", "t", "u", "v", "w", "x", "y", "z">>

UpperSeq ==
  <<"A", "B", "C", "D", "E", "F", "G", "H", "I", "J", "K", "L", "M",
    "N", "O", "P", "Q", "R", "S", "T", "U", "V", "W", "X", "Y", "Z">>

DigitSeq == <<"0", "1", "2", "3", "4", "5", "6", "7", "8", "9">>

Range(f) == {f[i] : i \in DOMAIN f}

Digit == Range(DigitSeq)

\* the characters str.strip() removes and the pattern \s matches
Whitespace == {" ", "\t", "\n", "\r", "\f"}

\* the characters the pattern \w matches
WordChar == Range(LowerSeq) \cup Range(UpperSeq) \cup Digit \cup {"_"}

SetMin(S) == CHOOSE x \in S : \A y \in S : x <= y

SetMax(S) == CHOOSE x \in S : \A y \in S : x >= y

\* str.lower() on one character
lower_char(c) ==
  IF \E i \in DOMAIN UpperSeq : UpperSeq[i] = c
    THEN LowerSeq[CHOOSE i \in DOMAIN UpperSeq : UpperSeq[i] = c]
    ELSE c

\* str.lower()
lower(s) == [i \in 1..Len(s) |-> lower_char(s[i])]

\* s[i:] from the first position at or after i whose character is not in S
Skip(s, i, S) ==
  LET J == {j \in i..Len(s) : s[j] \notin S}
  IN  IF J = {} THEN Len(s) + 1 ELSE SetMin(J)

\* str.strip(chars): the characters of S removed from both ends
strip_chars(s, S) ==
  LET B == {j \in 1..Len(s) : s[j] \notin S}
  IN  IF B = {} THEN <<>> ELSE SubSeq(s, SetMin(B), SetMax(B))

\* str.strip()
strip(s) == strip_chars(s, Whitespace)

\* a in b, for two strings
IsSubstring(a, b) ==
  \E i \in 1..(Len(b) - Len(a) + 1) : SubSeq(b, i, i + Len(a) - 1) = a

\* str.split(sep) for a one-character separator: never empty, keeps empty fields
RECURSIVE split(_, _)
split(s, sep) ==
  LET J == {j \in 1..Len(s) : s[j] = sep}
  IN  IF J = {} THEN <<s>>
      ELSE <<SubSeq(s, 1, SetMin(J) - 1)>> \o split(SubSeq(s, SetMin(J) + 1, Len(s)), sep)

(***************************************************************************)
(* Ingredient._clean_ingredient_name (the normalizer).                     *)
(***************************************************************************)
units ==
  {
    <<"c", "u", "p">>, <<"c", "u", "p", "s">>,
    <<"t", "a", "b", "l", "e", "s", "p", "o", "o", "n">>,
    <<"t", "a", "b", "l", "e", "s", "p", "o", "o", "n", "s">>,
    <<"t", "e", "a", "s", "p", "o", "o", "n">>, <<"t", "e", "a", "s", "p", "o", "o", "n", "s">>,
    <<"t", "b", "s", "p">>, <<"t", "s", "p">>, <<"p", "o", "u", "n", "d">>,
    <<"p", "o", "u", "n", "d", "s">>, <<"l", "b">>, <<"l", "b", "s">>,
    <<"o", "u", "n", "c", "e">>, <<"o", "u", "n", "c", "e", "s">>, <<"o", "z">>,
    <<"p", "a", "c", "k", "a", "g", "e">>, <<"p", "a", "c", "k", "a", "g", "e", "s">>,
    <<"j", "a", "r">>, <<"c", "a", "n">>, <<"b", "o", "t", "t", "l", "e">>,
    <<"s", "e", "r", "v", "i", "n", "g">>
  }

descriptors ==
  <<
    <<"f", "r", "e", "s", "h">>, <<"f", "r", "o", "z", "e", "n">>, <<"d", "r", "i", "e", "d">>,
    <<"g", "r", "o", "u", "n", "d">>, <<"w", "h", "o", "l", "e">>,
    <<"c", "h", "o", "p", "p", "e", "d">>, <<"d", "i", "c", "e", "d">>,
    <<"m", "i", "n", "c", "e", "d">>, <<"s", "l", "i", "c", "e", "d">>,
    <<"g", "r", "a", "t", "e", "d">>, <<"s", "h", "r", "e", "d", "d", "e", "d">>,
    <<"l", "a", "r", "g", "e">>, <<"s", "m", "a", "l", "l">>, <<"m", "e", "d", "i", "u", "m">>,
    <<"o", "r", " ", "t", "o", " ", "t", "a", "s", "t", "e">>,
    <<"t", "o", " ", "t", "a", "s", "t", "e">>, <<"a", "s", " ", "n", "e", "e", "d", "e", "d">>,
    <<"f", "o", "r", " ", "g", "a", "r", "n", "i", "s", "h">>,
    <<"o", "p", "t", "i", "o", "n", "a", "l">>, <<"f", "i", "n", "e", "l", "y">>,
    <<"t", "h", "i", "n", "l", "y">>, <<"s", "o", "f", "t", "e", "n", "e", "d">>,
    <<"m", "e", "l", "t", "e", "d">>, <<"d", "i", "v", "i", "d", "e", "d">>,
    <<"b", "e", "a", "t", "e", "n">>
  >>

\* re.sub(r'^\d+\s*/?-?\s*\d*\s*', '', s): every part after \d+ may match
\* the empty string, so the greedy match never backtracks
sub_quantity(s) ==
  IF Len(s) >= 1 /\ s[1] \in Digit
    THEN LET a == Skip(s, 1, Digit)
             b == Skip(s, a, Whitespace)
             c == IF b <= Len(s) /\ s[b] = "/" THEN b + 1 ELSE b
             d == IF c <= Len(s) /\ s[c] = "-" THEN c + 1 ELSE c
             e == Skip(s, d, Whitespace)
             f == Skip(s, e, Digit)
             g == Skip(s, f, Whitespace)
         IN  SubSeq(s, g, Len(s))
    ELSE s

\* whether s starts with unit u followed by at least one whitespace character
StartsWithUnit(s, u) ==
  /\ Len(s) > Len(u)
  /\ SubSeq(s, 1, Len(u)) = u
  /\ s[Len(u) + 1] \in Whitespace

\* re.sub(r'^(cup|cups|...|serving)\s+', '', s)
sub_unit(s) ==
  IF \E u \in units : StartsWithUnit(s, u)
    THEN LET u == CHOOSE v \in units : StartsWithUnit(s, v)
         IN  SubSeq(s, Skip(s, Len(u) + 1, Whitespace), Len(s))
    ELSE s

\* re.sub(r'\(.*?\)', '', s): from each "(" to the nearest ")" after it, when
\* no line break lies between them ("." does not match "\n")
RECURSIVE sub_parenthetical(_)
sub_parenthetical(s) ==
  IF s = <<>> THEN <<>>
  ELSE LET J == {j \in 2..Len(s) : s[j] = ")"}
           closes == /\ s[1] = "("
                     /\ J # {}
                     /\ \A k \in 2..(SetMin(J) - 1) : s[k] # "\n"
       IN  IF closes
             THEN sub_parenthetical(SubSeq(s, SetMin(J) + 1, Len(s)))
             ELSE <<s[1]>> \o sub_parenthetical(Tail(s))

\* whether position p of s (1..Len(s)) holds a \w character
IsWordAt(s, p) == p >= 1 /\ p <= Len(s) /\ s[p] \in WordChar

\* the pattern \b between s[p-1] and s[p]
WordBoundary(s, p) == IsWordAt(s, p - 1) # IsWordAt(s, p)

\* whether \b desc \b matches s at position i
DescriptorAt(s, desc, i) ==
  /\ i + Len(desc) - 1 <= Len(s)
  /\ SubSeq(s, i, i + Len(desc) - 1) = desc
  /\ WordBoundary(s, i)
  /\ WordBoundary(s, i + Len(desc))

\* re.sub(rf'\b{desc}\b', '', s, flags=re.IGNORECASE) scanning from position i:
\* the non-overlapping matches, left to right, on the string as it was;
\* folded is s in lower case (IGNORECASE)
RECURSIVE sub_descriptor_from(_, _, _, _)
sub_descriptor_from(s, folded, desc, i) ==
  IF i > Len(s) THEN <<>>
  ELSE IF DescriptorAt(folded, desc, i)
    THEN sub_descriptor_from(s, folded, desc, i + Len(desc))
    ELSE <<s[i]>> \o sub_descriptor_from(s, folded, desc, i + 1)

sub_descriptor(s, desc) ==
  \* a descriptor longer than s cannot match
  IF Len(desc) > Len(s) THEN s
  ELSE LET folded == lower(s) IN sub_descriptor_from(s, folded, desc, 1)

\* for desc in descriptors: ingredient = re.sub(...), from the k-th descriptor on
RECURSIVE sub_descriptors(_, _)
sub_descriptors(s, k) ==
  IF k > Len(descriptors) THEN s
  ELSE sub_descriptors(sub_descriptor(s, descriptors[k]), k + 1)

\* re.sub(r'\s+', ' ', s)
RECURSIVE sub_spaces(_)
sub_spaces(s) ==
  IF s = <<>> THEN <<>>
  ELSE IF s[1] \in Whitespace
    THEN <<" ">> \o sub_spaces(SubSeq(s, Skip(s, 1, Whitespace), Len(s)))
    ELSE <<s[1]>> \o sub_spaces(Tail(s))

\* Ingredient._clean_ingredient_name
clean_ingredient_name(ingredient_str) ==
  LET s0 == strip(lower(ingredient_str))
      s1 == sub_quantity(s0)
      s2 == sub_unit(s1)
      s3 == sub_parenthetical(s2)
      s4 == sub_descriptors(s3, 1)
      s5 == strip(sub_spaces(s4))
      s6 == strip(strip_chars(s5, {","}))
  IN  IF s6 # <<>> THEN s6 ELSE strip(lower(ingredient_str))

(***************************************************************************)
(* Ingredient.CATEGORIES and Ingredient._detect_category (the classifier). *)
(***************************************************************************)
proteins == <<"p", "r", "o", "t", "e", "i", "n", "s">>

proteins_terms ==
  {
    <<"c", "h", "i", "c", "k", "e", "n">>, <<"b", "e", "e", "f">>, <<"p", "o", "r", "k">>,
    <<"t", "u", "r", "k", "e", "y">>, <<"l", "a", "m", "b">>, <<"f", "i", "s", "h">>,
    <<"s", "a", "l", "m", "o", "n">>, <<"t", "u", "n", "a">>, <<"s", "h", "r", "i", "m", "p">>,
    <<"p", "r", "a", "w", "n", "s">>, <<"c", "r", "a", "b">>,
    <<"l", "o", "b", "s", "t", "e", "r">>, <<"e", "g", "g", "s">>, <<"e", "g", "g">>,
    <<"t", "o", "f", "u">>, <<"t", "e", "m", "p", "e", "h">>,
    <<"g", "r", "o", "u", "n", "d", " ", "b", "e", "e", "f">>,
    <<"g", "r", "o", "u", "n", "d", " ", "t", "u", "r", "k", "e", "y">>,
    <<"b", "a", "c", "o", "n">>, <<"s", "a", "u", "s", "a", "g", "e">>, <<"h", "a", "m">>,
    <<"c", "h", "i", "c", "k", "e", "n", " ", "b", "r", "e", "a", "s", "t">>,
    <<"c", "h", "i", "c", "k", "e", "n", " ", "t", "h", "i", "g", "h", "s">>,
    <<"c", "h", "i", "c", "k", "e", "n", " ", "w", "i", "n", "g", "s">>,
    <<"b", "e", "a", "n", "s">>, <<"l", "e", "n", "t", "i", "l", "s">>,
    <<"c", "h", "i", "c", "k", "p", "e", "a", "s">>,
    <<"b", "l", "a", "c", "k", " ", "b", "e", "a", "n", "s">>, <<"p", "e", "a", "s">>
  }

carbs == <<"c", "a", "r", "b", "s">>

carbs_terms ==
  {
    <<"r", "i", "c", "e">>, <<"p", "a", "s", "t", "a">>, <<"b", "r", "e", "a", "d">>,
    <<"q", "u", "i", "n", "o", "a">>, <<"n", "o", "o", "d", "l", "e", "s">>,
    <<"f", "l", "o", "u", "r">>, <<"o", "a", "t", "s">>,
    <<"a", "l", "l", "-", "p", "u", "r", "p", "o", "s", "e", " ", "f", "l", "o", "u", "r">>,
    <<"b", "r", "e", "a", "d", " ", "c", "r", "u", "m", "b", "s">>, <<"p", "a", "n", "k", "o">>,
    <<"c", "r", "a", "c", "k", "e", "r", "s">>, <<"t", "o", "r", "t", "i", "l", "l", "a", "s">>,
    <<"p", "o", "t", "a", "t", "o", "e", "s">>,
    <<"s", "w", "e", "e", "t", " ", "p", "o", "t", "a", "t", "o">>,
    <<"c", "o", "r", "n", "m", "e", "a", "l">>
  }

produce == <<"p", "r", "o", "d", "u", "c", "e">>

produce_terms ==
  {
    <<"t", "o", "m", "a", "t", "o", "e", "s">>, <<"l", "e", "t", "t", "u", "c", "e">>,
    <<"s", "p", "i", "n", "a", "c", "h">>, <<"k", "a", "l", "e">>,
    <<"b", "r", "o", "c", "c", "o", "l", "i">>, <<"c", "a", "r", "r", "o", "t", "s">>,
    <<"c", "e", "l", "e", "r", "y">>, <<"c", "u", "c", "u", "m", "b", "e", "r">>,
    <<"b", "e", "l", "l", " ", "p", "e", "p", "p", "e", "r">>, <<"o", "n", "i", "o", "n">>,
    <<"g", "a", "r", "l", "i", "c">>, <<"m", "u", "s", "h", "r", "o", "o", "m", "s">>,
    <<"z", "u", "c", "c", "h", "i", "n", "i">>, <<"e", "g", "g", "p", "l", "a", "n", "t">>,
    <<"c", "a", "u", "l", "i", "f", "l", "o", "w", "e", "r">>,
    <<"c", "a", "b", "b", "a", "g", "e">>, <<"a", "s", "p", "a", "r", "a", "g", "u", "s">>,
    <<"g", "r", "e", "e", "n", " ", "b", "e", "a", "n", "s">>, <<"c", "o", "r", "n">>,
    <<"r", "e", "d", " ", "o", "n", "i", "o", "n">>,
    <<"g", "r", "e", "e", "n", " ", "o", "n", "i", "o", "n", "s">>,
    <<"s", "c", "a", "l", "l", "i", "o", "n", "s">>, <<"l", "e", "m", "o", "n">>,
    <<"l", "i", "m", "e">>, <<"a", "p", "p", "l", "e">>, <<"b", "a", "n", "a", "n", "a">>,
    <<"o", "r", "a", "n", "g", "e">>, <<"b", "e", "r", "r", "i", "e", "s">>,
    <<"a", "v", "o", "c", "a", "d", "o">>
  }

dairy == <<"d", "a", "i", "r", "y">>

dairy_terms ==
  {
    <<"m", "i", "l", "k">>, <<"c", "h", "e", "e", "s", "e">>, <<"b", "u", "t", "t", "e", "r">>,
    <<"c", "r", "e", "a", "m">>, <<"y", "o", "g", "u", "r", "t">>,
    <<"s", "o", "u", "r", " ", "c", "r", "e", "a", "m">>,
    <<"c", "r", "e", "a", "m", " ", "c", "h", "e", "e", "s", "e">>,
    <<"m", "o", "z", "z", "a", "r", "e", "l", "l", "a">>, <<"c", "h", "e", "d", "d", "a", "r">>,
    <<"p", "a", "r", "m", "e", "s", "a", "n">>, <<"f", "e", "t", "a">>,
    <<"h", "e", "a", "v", "y", " ", "c", "r", "e", "a", "m">>,
    <<"g", "r", "e", "e", "k", " ", "y", "o", "g", "u", "r", "t">>
  }

pantry == <<"p", "a", "n", "t", "r", "y">>

pantry_terms ==
  {
    <<"o", "l", "i", "v", "e", " ", "o", "i", "l">>,
    <<"v", "e", "g", "e", "t", "a", "b", "l", "e", " ", "o", "i", "l">>,
    <<"c", "o", "o", "k", "i", "n", "g", " ", "s", "p", "r", "a", "y">>, <<"o", "i", "l">>,
    <<"s", "o", "y", " ", "s", "a", "u", "c", "e">>, <<"k", "e", "t", "c", "h", "u", "p">>,
    <<"m", "u", "s", "t", "a", "r", "d">>, <<"m", "a", "y", "o", "n", "n", "a", "i", "s", "e">>,
    <<"v", "i", "n", "e", "g", "a", "r">>, <<"s", "a", "l", "t">>,
    <<"p", "e", "p", "p", "e", "r">>,
    <<"b", "l", "a", "c", "k", " ", "p", "e", "p", "p", "e", "r">>,
    <<"g", "a", "r", "l", "i", "c", " ", "p", "o", "w", "d", "e", "r">>,
    <<"o", "n", "i", "o", "n", " ", "p", "o", "w", "d", "e", "r">>,
    <<"p", "a", "p", "r", "i", "k", "a">>, <<"c", "u", "m", "i", "n">>,
    <<"o", "r", "e", "g", "a", "n", "o">>, <<"b", "a", "s", "i", "l">>,
    <<"t", "h", "y", "m", "e">>, <<"p", "a", "r", "s", "l", "e", "y">>,
    <<"s", "u", "g", "a", "r">>, <<"b", "r", "o", "w", "n", " ", "s", "u", "g", "a", "r">>,
    <<"h", "o", "n", "e", "y">>, <<"m", "a", "p", "l", "e", " ", "s", "y", "r", "u", "p">>,
    <<"b", "r", "o", "t", "h">>, <<"s", "t", "o", "c", "k">>,
    <<"c", "h", "i", "c", "k", "e", "n", " ", "b", "r", "o", "t", "h">>,
    <<"v", "e", "g", "e", "t", "a", "b", "l", "e", " ", "b", "r", "o", "t", "h">>,
    <<"b", "a", "k", "i", "n", "g", " ", "p", "o", "w", "d", "e", "r">>,
    <<"b", "a", "k", "i", "n", "g", " ", "s", "o", "d", "a">>,
    <<"v", "a", "n", "i", "l", "l", "a", " ", "e", "x", "t", "r", "a", "c", "t">>
  }


\* Ingredient.CATEGORIES: a dict, iterated in the order its keys were written
CATEGORIES ==
  << [category |-> proteins, ingredients |-> proteins_terms],
     [category |-> carbs,    ingredients |-> carbs_terms],
     [category |-> produce,  ingredients |-> produce_terms],
     [category |-> dairy,    ingredients |-> dairy_terms],
     [category |-> pantry,   ingredients |-> pantry_terms] >>

CategoryKeys == {CATEGORIES[k].category : k \in DOMAIN CATEGORIES}

\* the loop body of _detect_category for one category: the exact test, then
\* the partial test against every term of the same category
CategoryMatches(name_lower, ingredients) ==
  \/ name_lower \in ingredients
  \/ \E cat_ingredient \in ingredients :
       IsSubstring(cat_ingredient, name_lower) \/ IsSubstring(name_lower, cat_ingredient)

\* Ingredient._detect_category, from the k-th category on
RECURSIVE detect_from(_, _)
detect_from(name_lower, k) ==
  IF k > Len(CATEGORIES) THEN pantry
  ELSE IF CategoryMatches(name_lower, CATEGORIES[k].ingredients)
    THEN CATEGORIES[k].category
    ELSE detect_from(name_lower, k + 1)

detect_category(name) == detect_from(lower(name), 1)

\* the terms of a set, one after the other, in some order
RECURSIVE SetToSeq(_)
SetToSeq(S) ==
  IF S = {} THEN <<>>
  ELSE LET x == CHOOSE y \in S : TRUE
       IN  <<x>> \o SetToSeq(S \ {x})

\* one iteration order of every category's set
TableOrder == [k \in DOMAIN CATEGORIES |-> SetToSeq(CATEGORIES[k].ingredients)]

\* "for cat_ingredient in ingredients": the j-th term the loop visits in the
\* k-th category. A set of str is iterated in the order of the hashes, which
\* the process's hash seed decides: seed <<shift, reversed>> rotates the table
\* order by shift and, when reversed, visits it backwards
term_at(k, j, seed) ==
  LET n == Len(TableOrder[k])
      p == ((j - 1 + seed[1]) % n) + 1
  IN  TableOrder[k][IF seed[2] THEN n + 1 - p ELSE p]

\* the partial test of one term
term_hit(cat_ingredient, lowered) ==
  IsSubstring(cat_ingredient, lowered) \/ IsSubstring(lowered, cat_ingredient)

\* a faulty inner loop that gives up the category after its first term
loop_stops_after_first_term(j, n) == FALSE

\* whether the inner loop has another term to visit after the j-th of n
loop_continues(j, n) == j < n

\* Ingredient.__init__(name, category): category None means auto-detect, and
\* so does the empty string
Ingredient(name, category) ==
  LET n == clean_ingredient_name(name)
  IN  [name |-> n,
       category |-> IF category # None /\ category # <<>>
                      THEN lower(category) ELSE detect_category(n)]

(***************************************************************************)
(* IngredientManager (the ingredient catalog).                             *)
(***************************************************************************)
\* IngredientManager.__init__: an empty list for every key of CATEGORIES
EmptyManager == [category \in CategoryKeys |-> <<>>]

\* a faulty "ingredient in bucket" that compares whole Ingredients, category
\* included, as if __eq__ were not defined on the names
Contains_whole_ingredient(bucket, ing) == \E i \in DOMAIN bucket : bucket[i] = ing

\* "ingredient in bucket": Ingredient.__eq__ compares the names alone
Contains(bucket, ing) == \E i \in DOMAIN bucket : bucket[i].name = ing.name

\* a faulty add_ingredient, without the "Avoid duplicates" tests
add_ingredient_no_dedup(self_ingredients, ing) ==
  IF ing.category \in DOMAIN self_ingredients
    THEN [self_ingredients EXCEPT ![ing.category] = Append(@, ing)]
    ELSE [self_ingredients EXCEPT ![pantry] = Append(@, ing)]

\* a faulty add_ingredient that opens a new list for a category that is not a
\* key of the dict
add_ingredient_new_bucket(self_ingredients, ing) ==
  IF ing.category \in DOMAIN self_ingredients
    THEN IF ~Contains(self_ingredients[ing.category], ing)
           THEN [self_ingredients EXCEPT ![ing.category] = Append(@, ing)]
           ELSE self_ingredients
    ELSE [category \in DOMAIN self_ingredients \cup {ing.category} |->
            IF category = ing.category THEN <<ing>> ELSE self_ingredients[category]]

\* IngredientManager.add_ingredient: the dict after the call
add_ingredient(self_ingredients, ing) ==
  IF ing.category \in DOMAIN self_ingredients
    THEN IF ~Contains(self_ingredients[ing.category], ing)
           THEN [self_ingredients EXCEPT ![ing.category] = Append(@, ing)]
           ELSE self_ingredients
    ELSE IF ~Contains(self_ingredients[pantry], ing)
           THEN [self_ingredients EXCEPT ![pantry] = Append(@, ing)]
           ELSE self_ingredients

\* the names add_ingredients_from_list keeps: "if name and name.strip()"
KeptNames(ingredient_names) == SelectSeq(ingredient_names, LAMBDA name : strip(name) # <<>>)

\* IngredientManager.add_ingredients_from_list: the dict after the loop
RECURSIVE add_ingredients_from_list(_, _)
add_ingredients_from_list(self_ingredients, ingredient_names) ==
  IF ingredient_names = <<>> THEN self_ingredients
  ELSE LET name == Head(ingredient_names)
           next == IF name # <<>> /\ strip(name) # <<>>
                     THEN add_ingredient(self_ingredients, Ingredient(name, None))
                     ELSE self_ingredients
       IN  add_ingredients_from_list(next, Tail(ingredient_names))

\* IngredientManager.get_category_counts: only the non-empty categories
get_category_counts(self_ingredients) ==
  [category \in {c \in DOMAIN self_ingredients : Len(self_ingredients[c]) > 0}
     |-> Len(self_ingredients[category])]

(***************************************************************************)
(* recipe.py and project.test.py: Ingredient, Recipe, the loader, the      *)
(* matcher and the ranker.                                                 *)
(***************************************************************************)
\* Ingredient.__init__ of recipe.py and project.test.py: lower().strip() only
RecipeIngredient(name) == [name |-> strip(lower(name))]

\* [i.name for i in ingredients]
Names(ings) == [i \in 1..Len(ings) |-> ings[i].name]

\* a faulty match_score, counting each matching name once
match_score_distinct(recipe, available_ingredients) ==
  Cardinality(Range(Names(recipe.ingredients)) \cap Range(Names(available_ingredients)))

\* Recipe.match_score: one count per entry of the recipe's list that is in
\* the list of available names
match_score(recipe, available_ingredients) ==
  LET available_names == Range(Names(available_ingredients))
      recipe_names == Names(recipe.ingredients)
      matches_ == SelectSeq(recipe_names, LAMBDA ing : ing \in available_names)
  IN  Len(matches_)

\* Recipe.missing_ingredients
missing_ingredients(recipe, available_ingredients) ==
  LET available_names == Range(Names(available_ingredients))
  IN  SelectSeq(Names(recipe.ingredients), LAMBDA ing : ing \notin available_names)

\* whether the loop body of load_recipes_from_csv raises on this row:
\* None has no split()
RowRaises(row) == row.ingredients = None \/ row.directions = None

\* the loop body of load_recipes_from_csv: the Recipe built from one row
RecipeOfRow(row) ==
  LET parts == split(row.ingredients, ",")
  IN  [title |-> row.title,
       ingredients |-> [k \in 1..Len(parts) |-> RecipeIngredient(parts[k])],
       directions |-> split(row.directions, "|"),
       health_score |-> row.health_score,
       diet_tags |-> <<>>]

\* available = [Ingredient(name) for name in user_input.split(",")]
AvailableOf(input) ==
  LET parts == split(input, ",")
  IN  [k \in 1..Len(parts) |-> RecipeIngredient(parts[k])]

\* ord() of a digit
ord(c) == 47 + (CHOOSE i \in DOMAIN DigitSeq : DigitSeq[i] = c)

\* a > b for two str: the first differing character decides, else the length
str_gt(a, b) ==
  \E k \in 1..Len(a) :
    /\ \A j \in 1..(k - 1) : j <= Len(b) /\ a[j] = b[j]
    /\ k > Len(b) \/ ord(a[k]) > ord(b[k])

\* a > b for the sort keys (match_score, health_score) of generate_recipes
key_gt(a, b) == a[1] > b[1] \/ (a[1] = b[1] /\ str_gt(a[2], b[2]))

\* sorted(range(1, n+1), key=..., reverse=True), given gt[j][i], the truth of
\* key(j) > key(i): greater keys first; the sort is stable, and reverse=True
\* keeps equal keys in their original order
sorted_reverse(gt) ==
  LET n == Len(gt)
      place(i) == 1 + Cardinality({j \in 1..n : gt[j][i]})
                    + Cardinality({j \in 1..(i - 1) : ~gt[j][i] /\ ~gt[i][j]})
  IN  [p \in 1..n |-> CHOOSE i \in 1..n : place(i) = p]

\* a faulty generate_recipes, without the "at least 1 ingredient" filter
generate_recipes_unfiltered(available_ingredients, all_recipes) ==
  LET key(i) == <<match_score(all_recipes[i], available_ingredients),
                  all_recipes[i].health_score>>
      n == Len(all_recipes)
  IN  sorted_reverse([j \in 1..n |-> [i \in 1..n |-> key_gt(key(j), key(i))]])

\* generate_recipes: the positions in all_recipes of the recipes returned
generate_recipes(available_ingredients, all_recipes) ==
  LET key(i) == <<match_score(all_recipes[i], available_ingredients),
                  all_recipes[i].health_score>>
      n == Len(all_recipes)
      ranked == sorted_reverse([j \in 1..n |-> [i \in 1..n |-> key_gt(key(j), key(i))]])
  IN  SelectSeq(ranked, LAMBDA i : match_score(all_recipes[i], available_ingredients) > 0)

\* project.test.py: scored_recipes after the loop and the sort, as
\* <<score, position in all_recipes>>
score_and_sort(available_ingredients, all_recipes) ==
  LET all == [i \in 1..Len(all_recipes) |->
                <<match_score(all_recipes[i], available_ingredients), i>>]
      scored == SelectSeq(all, LAMBDA x : x[1] > 0)
      key(k) == scored[k][1]
      n == Len(scored)
      order == sorted_reverse([j \in 1..n |-> [i \in 1..n |-> key(j) > key(i)]])
  IN  [p \in 1..Len(scored) |-> scored[order[p]]]

\* project.test.py: the number of matches shown
TopMatches == 3

\* a faulty top_n, without the cap
top_n_all(scored) == Len(scored)

top_n(scored) == IF Len(scored) >= TopMatches THEN TopMatches ELSE Len(scored)

\* s[:n] for n >= 0
slice_to(s, n) == SubSeq(s, 1, IF n < Len(s) THEN n ELSE Len(s))

\* recipe.display(available) for each recipe of a list of positions
display_all(positions, all_recipes, available_ingredients) ==
  [p \in 1..Len(positions) |->
     [recipe |-> positions[p],
      missing |-> missing_ingredients(all_recipes[positions[p]], available_ingredients)]]

(***************************************************************************)
(* Bounds and the inputs drawn from them.                                  *)
(***************************************************************************)
\* raw ingredient strings are concatenations of at most MaxTokens tokens
MaxTokens == 3

\* catalog calls in one run
MaxOps == 3

\* names in one add_ingredients_from_list call
MaxListLen == 2

\* rows the CSV reader yields in one run
MaxRows == 5

\* the hash seeds rotate the iteration of a set by 0..MaxShift terms
MaxShift == 2

Tokens ==
  { <<"2">>, <<" ">>, <<"/">>, <<",">>, <<"(">>, <<")">>,
    <<"c", "u", "p">>, <<"f", "r", "e", "s", "h">>, <<"F", "l", "o", "u", "r">>,
    <<"t", "o", " ", "t", "a", "s", "t", "e">> }

RECURSIVE Concatenations(_)
Concatenations(n) ==
  IF n = 0 THEN {<<>>}
  ELSE LET shorter == Concatenations(n - 1)
       IN  shorter \cup {s \o t : s \in shorter, t \in Tokens}

AllTerms == UNION {CATEGORIES[k].ingredients : k \in DOMAIN CATEGORIES}

RawInputs == Concatenations(MaxTokens) \cup AllTerms

\* the category argument of Ingredient(name, category): absent, a known
\* bucket, a known bucket in another case, an unknown one
CategoryArgs ==
  {None, dairy, <<"P", "a", "n", "t", "r", "y">>, <<"o", "t", "h", "e", "r">>}

\* the names given to the catalog
CatalogNames ==
  { <<"f", "l", "o", "u", "r">>,
    <<"2", " ", "c", "u", "p", "s", " ", "F", "l", "o", "u", "r">>,
    <<"s", "a", "l", "t">>,
    <<" ">> }

RECURSIVE SeqsUpTo(_, _)
SeqsUpTo(S, n) ==
  IF n = 0 THEN {<<>>}
  ELSE LET shorter == SeqsUpTo(S, n - 1)
       IN  shorter \cup {Append(s, x) : s \in shorter, x \in S}

\* the cells of the "ingredients" column
Cell_chicken_rice_salt ==
  <<"c", "h", "i", "c", "k", "e", "n", ",", "r", "i", "c", "e", ",", "s", "a", "l", "t">>

Cell_rice_rice == <<"r", "i", "c", "e", ",", " ", "R", "i", "c", "e">>

Cell_cups_flour == <<"2", " ", "c", "u", "p", "s", " ", "f", "l", "o", "u", "r">>

Cell_directions == <<"m", "i", "x", "|", "b", "a", "k", "e">>

\* the rows csv.DictReader may yield; a field a short row lacks is None
CsvRows ==
  { [title |-> <<"S", "t", "e", "w">>, ingredients |-> Cell_chicken_rice_salt,
     directions |-> Cell_directions, health_score |-> <<"9">>],
    [title |-> <<"B", "o", "w", "l">>, ingredients |-> Cell_chicken_rice_salt,
     directions |-> Cell_directions, health_score |-> <<"1", "0">>],
    [title |-> <<"R", "i", "c", "e">>, ingredients |-> Cell_rice_rice,
     directions |-> Cell_directions, health_score |-> <<"9">>],
    [title |-> None, ingredients |-> Cell_cups_flour,
     directions |-> Cell_directions, health_score |-> <<"1", "0">>],
    [title |-> <<"S", "o", "u", "p">>, ingredients |-> None,
     directions |-> None, health_score |-> None] }

\* what the user types at the prompt
UserInputs ==
  { <<"c", "h", "i", "c", "k", "e", "n", ",", "s", "a", "l", "t">>,
    <<"R", "i", "c", "e">>,
    <<"f", "l", "o", "u", "r", ",", " ", "r", "i", "c", "e">>,
    <<>> }

NoIngredient == [name |-> None, category |-> None]

NoCall == [op |-> "none", args |-> <<>>, repeated |-> FALSE, renamed |-> FALSE]

VARIABLES
  raw,            \* the name argument of Ingredient(...)
  category_arg,   \* the category argument of Ingredient(...)
  ingredient,     \* the Ingredient constructed from them
  ipc,            \* "raw" before the constructor ran, "built" after
  ingredients,    \* IngredientManager.ingredients: category -> list
  inserted,       \* every Ingredient given to add_ingredient so far
  call,           \* the latest catalog call and the Ingredients it added
  nops,           \* the number of catalog calls so far
  rows_read,      \* the rows the CSV reader has yielded so far
  recipes,        \* the list load_recipes_from_csv builds
  pc,             \* "load", "input", "match", "done" or "raised"
  user_input,     \* the line read from the prompt
  available,      \* the user's Ingredients
  scores,         \* match_score of every recipe, as the ranking computed it
  matches,        \* recipe.py: what generate_recipes returned
  scored_recipes, \* project.test.py: the sorted (score, recipe) pairs
  displayed,      \* the recipes displayed, each with its missing ingredients
  script,         \* which script did the matching
  name_lower,     \* _detect_category: self.name.lower()
  hash_seed,      \* the process's str hash seed, which orders every set
  category_k,     \* the position in CATEGORIES of the category being tried
  term_j,         \* the position in the set's iteration of the term being tried
  detected,       \* what _detect_category returned
  cpc             \* "exact", "partial", "next", "default" or "returned"

ingredientVars == <<raw, category_arg, ingredient, ipc>>

catalogVars == <<ingredients, inserted, call, nops>>

recipeVars ==
  <<rows_read, recipes, pc, user_input, available, scores, matches, scored_recipes,
    displayed, script>>

classifyVars == <<name_lower, hash_seed, category_k, term_j, detected, cpc>>

vars == <<ingredientVars, catalogVars, recipeVars, classifyVars>>

IngredientIdle ==
  /\ raw = <<>>
  /\ category_arg = None
  /\ ingredient = NoIngredient
  /\ ipc = "idle"

CatalogIdle ==
  /\ ingredients = EmptyManager
  /\ inserted = {}
  /\ call = NoCall
  /\ nops = 0

ClassifyIdle ==
  /\ name_lower = <<>>
  /\ hash_seed = <<0, FALSE>>
  /\ category_k = 1
  /\ term_j = 1
  /\ detected = None
  /\ cpc = "idle"

RecipesIdle ==
  /\ rows_read = <<>>
  /\ recipes = <<>>
  /\ pc = "idle"
  /\ user_input = None
  /\ available = <<>>
  /\ scores = <<>>
  /\ matches = <<>>
  /\ scored_recipes = <<>>
  /\ displayed = <<>>
  /\ script = "none"

(***************************************************************************)
(* SpecIngredient: one Ingredient is constructed from a raw string.        *)
(***************************************************************************)
InitIngredient ==
  /\ raw \in RawInputs
  /\ category_arg \in CategoryArgs
  /\ ingredient = NoIngredient
  /\ ipc = "raw"
  /\ CatalogIdle
  /\ RecipesIdle
  /\ ClassifyIdle

\* Ingredient(raw, category_arg)
NewIngredient ==
  /\ ipc = "raw"
  /\ ingredient' = Ingredient(raw, category_arg)
  /\ ipc' = "built"
  /\ UNCHANGED <<raw, category_arg, catalogVars, recipeVars, classifyVars>>

NextIngredient == NewIngredient

SpecIngredient == InitIngredient /\ [][NextIngredient]_vars

(***************************************************************************)
(* SpecCatalog: calls on one IngredientManager.                            *)
(***************************************************************************)
InitCatalog ==
  /\ IngredientIdle
  /\ CatalogIdle
  /\ RecipesIdle
  /\ ClassifyIdle

\* the bucket add_ingredient chooses: the Ingredient's category, or pantry
\* when the category is not a key of the dict
BucketOf(ing) == IF ing.category \in CategoryKeys THEN ing.category ELSE pantry

\* whether every Ingredient of args has the name and the bucket of one given
\* to add_ingredient before
Repeated(args) ==
  /\ args # <<>>
  /\ \A i \in DOMAIN args :
       \E x \in inserted : x.name = args[i].name /\ BucketOf(x) = BucketOf(args[i])

\* whether every Ingredient of args has the name of one given before
Renamed(args) ==
  /\ args # <<>>
  /\ \A i \in DOMAIN args : \E x \in inserted : x.name = args[i].name

\* manager.add_ingredient(Ingredient(name, category)); the callers construct
\* an Ingredient only from a name with name.strip() non-empty
AddIngredient(name, category) ==
  \E ing \in {Ingredient(name, category)} :
      /\ strip(name) # <<>>
      /\ nops < MaxOps
      /\ ingredients' = add_ingredient(ingredients, ing)
      /\ inserted' = inserted \cup {ing}
      /\ call' = [op |-> "add_ingredient", args |-> <<ing>>,
                  repeated |-> Repeated(<<ing>>), renamed |-> Renamed(<<ing>>)]
      /\ nops' = nops + 1
      /\ UNCHANGED <<ingredientVars, recipeVars, classifyVars>>

\* manager.add_ingredients_from_list(names)
AddIngredientsFromList(names) ==
  \E args \in {[i \in 1..Len(KeptNames(names)) |-> Ingredient(KeptNames(names)[i], None)]} :
      /\ nops < MaxOps
      /\ ingredients' = add_ingredients_from_list(ingredients, names)
      /\ inserted' = inserted \cup Range(args)
      /\ call' = [op |-> "add_ingredients_from_list", args |-> args,
                  repeated |-> Repeated(args), renamed |-> Renamed(args)]
      /\ nops' = nops + 1
      /\ UNCHANGED <<ingredientVars, recipeVars, classifyVars>>

NextCatalog ==
  \/ \E name \in CatalogNames, category \in CategoryArgs : AddIngredient(name, category)
  \/ \E names \in SeqsUpTo(CatalogNames, MaxListLen) : AddIngredientsFromList(names)

SpecCatalog == InitCatalog /\ [][NextCatalog]_vars

(***************************************************************************)
(* SpecClassify: one run of _detect_category, term by term, in a process   *)
(* whose hash seed orders the vocabulary sets.                             *)
(***************************************************************************)
\* the names classified: every vocabulary term, the empty name, a name with
\* terms of two categories inside, a name no term matches
ClassifyNames ==
  AllTerms \cup
    { <<>>,
      <<"G", "r", "e", "e", "n", " ", "B", "e", "a", "n", " ", "s", "o", "u", "p">>,
      <<"k", "a", "l", "e">> }

HashSeeds == (0..MaxShift) \X BOOLEAN

InitClassify ==
  /\ IngredientIdle
  /\ CatalogIdle
  /\ RecipesIdle
  /\ name_lower \in {lower(name) : name \in ClassifyNames}
  /\ hash_seed \in HashSeeds
  /\ category_k = 1
  /\ term_j = 1
  /\ detected = None
  /\ cpc = "exact"

\* "if name_lower in ingredients: return category"
ExactTest ==
  /\ cpc = "exact"
  /\ IF name_lower \in CATEGORIES[category_k].ingredients
       THEN /\ detected' = CATEGORIES[category_k].category
            /\ cpc' = "returned"
       ELSE /\ detected' = detected
            /\ cpc' = "partial"
  /\ term_j' = 1
  /\ UNCHANGED <<name_lower, hash_seed, category_k, ingredientVars, catalogVars, recipeVars>>

\* one iteration of "for cat_ingredient in ingredients"
VisitTerm ==
  /\ cpc = "partial"
  /\ IF term_hit(term_at(category_k, term_j, hash_seed), name_lower)
       THEN /\ detected' = CATEGORIES[category_k].category
            /\ cpc' = "returned"
            /\ term_j' = term_j
       ELSE /\ detected' = detected
            /\ IF loop_continues(term_j, Cardinality(CATEGORIES[category_k].ingredients))
                 THEN cpc' = "partial" /\ term_j' = term_j + 1
                 ELSE cpc' = "next" /\ term_j' = term_j
  /\ UNCHANGED <<name_lower, hash_seed, category_k, ingredientVars, catalogVars, recipeVars>>

\* "for category, ingredients in self.CATEGORIES.items()": the next category
NextCategory ==
  /\ cpc = "next"
  /\ IF category_k < Len(CATEGORIES)
       THEN category_k' = category_k + 1 /\ cpc' = "exact"
       ELSE category_k' = category_k /\ cpc' = "default"
  /\ UNCHANGED <<name_lower, hash_seed, term_j, detected, ingredientVars, catalogVars,
                 recipeVars>>

\* "return 'pantry'"
ReturnDefault ==
  /\ cpc = "default"
  /\ detected' = pantry
  /\ cpc' = "returned"
  /\ UNCHANGED <<name_lower, hash_seed, category_k, term_j, ingredientVars, catalogVars,
                 recipeVars>>

NextClassify == ExactTest \/ VisitTerm \/ NextCategory \/ ReturnDefault

SpecClassify == InitClassify /\ [][NextClassify]_vars

(***************************************************************************)
(* SpecRecipes: a run of recipe.py or project.test.py: load the rows, read *)
(* the user's ingredients, rank and display.                               *)
(***************************************************************************)
InitRecipes ==
  /\ IngredientIdle
  /\ CatalogIdle
  /\ rows_read = <<>>
  /\ recipes = <<>>
  /\ pc = "load"
  /\ user_input = None
  /\ available = <<>>
  /\ scores = <<>>
  /\ matches = <<>>
  /\ scored_recipes = <<>>
  /\ displayed = <<>>
  /\ script = "none"
  /\ ClassifyIdle

\* one iteration of "for row in reader": the Recipe is appended, or the
\* exception leaves the loader and ends the run: the list built so far is
\* dropped and the module's "recipes" is never assigned
LoadRow(row) ==
  /\ pc = "load"
  /\ Len(rows_read) < MaxRows
  /\ rows_read' = Append(rows_read, row)
  /\ IF RowRaises(row)
       THEN /\ pc' = "raised"
            /\ recipes' = <<>>
       ELSE /\ pc' = pc
            /\ recipes' = Append(recipes, RecipeOfRow(row))
  /\ UNCHANGED <<user_input, available, scores, matches, scored_recipes, displayed, script,
                 ingredientVars, catalogVars, classifyVars>>

\* the reader is exhausted: return recipes
EndOfFile ==
  /\ pc = "load"
  /\ pc' = "input"
  /\ UNCHANGED <<rows_read, recipes, user_input, available, scores, matches, scored_recipes,
                 displayed, script, ingredientVars, catalogVars, classifyVars>>

\* user_input = input(...); available = [Ingredient(name) for name in ...]
ReadUserInput(line) ==
  /\ pc = "input"
  /\ user_input' = line
  /\ available' = AvailableOf(line)
  /\ pc' = "match"
  /\ UNCHANGED <<rows_read, recipes, scores, matches, scored_recipes, displayed, script,
                 ingredientVars, catalogVars, classifyVars>>

ScoresOf(all_recipes, available_ingredients) ==
  [i \in 1..Len(all_recipes) |-> match_score(all_recipes[i], available_ingredients)]

\* recipe.py: matches = generate_recipes(available, recipes), then display each
GenerateAndDisplay ==
  /\ pc = "match"
  /\ scores' = ScoresOf(recipes, available)
  /\ matches' = generate_recipes(available, recipes)
  /\ displayed' = display_all(matches', recipes, available)
  /\ script' = "recipe.py"
  /\ pc' = "done"
  /\ UNCHANGED <<rows_read, recipes, user_input, available, scored_recipes,
                 ingredientVars, catalogVars, classifyVars>>

\* project.test.py: score, filter, sort, and display the top matches
ScoreSortAndDisplayTop ==
  /\ pc = "match"
  /\ scores' = ScoresOf(recipes, available)
  /\ scored_recipes' = score_and_sort(available, recipes)
  /\ displayed' =
       LET top == slice_to(scored_recipes', top_n(scored_recipes'))
       IN  display_all([p \in 1..Len(top) |-> top[p][2]], recipes, available)
  /\ script' = "project.test.py"
  /\ pc' = "done"
  /\ UNCHANGED <<rows_read, recipes, user_input, available, matches,
                 ingredientVars, catalogVars, classifyVars>>

NextRecipes ==
  \/ \E row \in CsvRows : LoadRow(row)
  \/ EndOfFile
  \/ \E line \in UserInputs : ReadUserInput(line)
  \/ GenerateAndDisplay
  \/ ScoreSortAndDisplayTop

SpecRecipes == InitRecipes /\ [][NextRecipes]_vars


(***************************************************************************)
(* Properties.                                                             *)
(***************************************************************************)
TermsOf(category) ==
  UNION {CATEGORIES[k].ingredients : k \in {j \in DOMAIN CATEGORIES : CATEGORIES[j].category = category}}

\* C1: an auto-detected Ingredient whose name is an exact member of some
\* category's vocabulary gets a category whose vocabulary contains the name,
\* whatever substring matches an earlier category has.
C1_ExactBeforeSubstring ==
  (ipc = "built" /\ category_arg = None /\ ingredient.name \in AllTerms)
    => ingredient.name \in TermsOf(ingredient.category)

\* C2: the normalizer is idempotent: cleaning the name of a constructed
\* Ingredient again gives the same name.
C2_NormalizeIdempotent ==
  ipc = "built" => clean_ingredient_name(ingredient.name) = ingredient.name

\* C3: the normalizer never returns the empty string for a non-empty raw
\* string.
C3_NormalizeNeverEmpty ==
  (ipc = "built" /\ raw # <<>>) => ingredient.name # <<>>

AvailableNames == {available[k].name : k \in DOMAIN available}

\* the positions of the recipe's ingredient list whose name is (present) or is
\* not (~present) among the available names
Positions(recipe, present) ==
  {k \in DOMAIN recipe.ingredients : (recipe.ingredients[k].name \in AvailableNames) = present}

\* C4: the match score counts the entries of the recipe's list, one per
\* occurrence, whose name is available; the missing ingredients are the other
\* entries' names, in the list's order, repeats kept.
C4_ScoreAndMissing ==
  pc = "done" =>
    /\ \A i \in DOMAIN recipes : scores[i] = Cardinality(Positions(recipes[i], TRUE))
    /\ \A d \in DOMAIN displayed :
         LET recipe == recipes[displayed[d].recipe]
             absent == Positions(recipe, FALSE)
             missing == displayed[d].missing
         IN  /\ Len(missing) = Cardinality(absent)
             /\ \A k \in absent :
                  missing[Cardinality({j \in absent : j <= k})] = recipe.ingredients[k].name

\* the recipe [chicken, rice, salt] against {chicken, salt}: score 2, missing [rice]
C4_Witness ==
  /\ pc = "done"
  /\ AvailableNames = {<<"c", "h", "i", "c", "k", "e", "n">>, <<"s", "a", "l", "t">>}
  /\ \E d \in DOMAIN displayed :
       /\ Names(recipes[displayed[d].recipe].ingredients)
            = << <<"c", "h", "i", "c", "k", "e", "n">>, <<"r", "i", "c", "e">>,
                 <<"s", "a", "l", "t">> >>
       /\ scores[displayed[d].recipe] = 2
       /\ displayed[d].missing = << <<"r", "i", "c", "e">> >>

\* int(s) for a string of digits
RECURSIVE Numeric(_)
Numeric(s) ==
  IF s = <<>> THEN 0
  ELSE 10 * Numeric(SubSeq(s, 1, Len(s) - 1)) + (ord(s[Len(s)]) - 48)

\* C5: generate_recipes returns the recipes by descending match score, then
\* by descending numeric health score, then in the order of the input.
C5_RankOrder ==
  (pc = "done" /\ script = "recipe.py") =>
    \A p, q \in DOMAIN matches :
      p < q =>
        LET i == matches[p]
            j == matches[q]
            hi == Numeric(recipes[i].health_score)
            hj == Numeric(recipes[j].health_score)
        IN  \/ scores[i] > scores[j]
            \/ scores[i] = scores[j] /\ hi > hj
            \/ scores[i] = scores[j] /\ hi = hj /\ i < j

\* the positions of the recipes the ranking returned
Ranked ==
  IF script = "recipe.py" THEN matches
  ELSE [p \in 1..Len(scored_recipes) |-> scored_recipes[p][2]]

\* C6: the ranking returns exactly the recipes whose match score is at least
\* 1, each once: none with score 0, none with a positive score dropped, and
\* the empty list when none qualifies.
C6_ExactlyPositiveScores ==
  pc = "done" =>
    /\ Range(Ranked) = {i \in DOMAIN recipes : scores[i] >= 1}
    /\ Len(Ranked) = Cardinality(Range(Ranked))

\* a run of recipe.py with a recipe of score 0 and one of positive score
C6_Witness ==
  /\ pc = "done"
  /\ script = "recipe.py"
  /\ \E i, j \in DOMAIN recipes : scores[i] = 0 /\ scores[j] >= 1
  /\ Len(matches) < Len(recipes)

\* C7: the recipes displayed by project.test.py are the first min(N, k)
\* of the k ranked ones, in ranked order.
C7_TopN ==
  (pc = "done" /\ script = "project.test.py") =>
    LET k == Len(scored_recipes)
        m == IF TopMatches < k THEN TopMatches ELSE k
    IN  /\ Len(displayed) = m
        /\ \A p \in 1..m : displayed[p].recipe = scored_recipes[p][2]

\* the top 3 of a ranked list of 5
C7_Witness ==
  /\ pc = "done"
  /\ script = "project.test.py"
  /\ Len(scored_recipes) = 5
  /\ Len(displayed) = 3

\* C8 as stated: a call that adds only Ingredients whose canonical name was
\* added before leaves get_category_counts() unchanged.
C8_SameNameLeavesCounts ==
  [][(nops' = nops + 1 /\ call'.renamed)
       => get_category_counts(ingredients') = get_category_counts(ingredients)]_vars

\* C8, amended: a call that adds only Ingredients whose canonical name was
\* added before to the same bucket (the category, or pantry for a category
\* that is no bucket) leaves get_category_counts() unchanged.
C8_SameIngredientLeavesCounts ==
  [][(nops' = nops + 1 /\ call'.repeated)
       => get_category_counts(ingredients') = get_category_counts(ingredients)]_vars

\* the latest call added again an Ingredient that is in its bucket already
C8_Witness ==
  /\ call.repeated
  /\ Contains(ingredients[BucketOf(call.args[1])], call.args[1])

\* C9: a recipe entry whose canonical name (by the normalizer of the
\* Ingredient class of project_ingredients_class.py) equals that of an entry
\* the user typed counts as a match.
C9_ScoresOnCanonicalNames ==
  pc = "done" =>
    \A i \in DOMAIN recipes :
      LET entries == split(rows_read[i].ingredients, ",")
          typed == split(user_input, ",")
      IN  \A k \in DOMAIN entries :
            (\E u \in DOMAIN typed :
               clean_ingredient_name(entries[k]) = clean_ingredient_name(typed[u]))
              => recipes[i].ingredients[k].name \in AvailableNames

\* a row with its required fields
WellFormed(row) == row.title # None /\ row.ingredients # None

\* C10: a row without a title or without ingredients is skipped and the load
\* goes on: it never aborts, and the recipes loaded are those of the
\* well-formed rows read, in order.
C10_MalformedRowSkipped ==
  /\ pc # "raised"
  /\ pc # "idle" =>
       LET good == SelectSeq(rows_read, WellFormed)
       IN  /\ Len(recipes) = Len(good)
           /\ \A k \in DOMAIN good : recipes[k].title = good[k].title

\* C11: after any sequence of add_ingredient and add_ingredients_from_list
\* calls on a new IngredientManager, no category's list holds two Ingredients
\* with the same canonical name.
C11_NoDuplicateInBucket ==
  \A category \in DOMAIN ingredients :
    \A i, j \in DOMAIN ingredients[category] :
      ingredients[category][i].name = ingredients[category][j].name => i = j

\* a list holds two Ingredients, and the latest call gave again a name that
\* was given before
C11_Witness ==
  /\ call.renamed
  /\ \E category \in DOMAIN ingredients :
       /\ Len(ingredients[category]) >= 2
       /\ \E i \in DOMAIN call.args : Contains(ingredients[category], call.args[i])

\* C13: add_ingredient of an Ingredient whose category is not one of proteins,
\* carbs, produce, dairy, pantry raises nothing (the pantry list it looks up
\* exists), appends the Ingredient to the pantry list unless one of the same
\* canonical name is there already, adds no key to the dict and leaves every
\* other list as it was.
C13_UnknownCategoryGoesToPantry ==
  [][(/\ nops' = nops + 1
      /\ call'.op = "add_ingredient"
      /\ call'.args[1].category \notin {proteins, carbs, produce, dairy, pantry})
       => /\ pantry \in DOMAIN ingredients
          /\ DOMAIN ingredients' = DOMAIN ingredients
          /\ \A category \in DOMAIN ingredients \ {pantry} :
               ingredients'[category] = ingredients[category]
          /\ ingredients'[pantry] =
               IF \E i \in DOMAIN ingredients[pantry] :
                    ingredients[pantry][i].name = call'.args[1].name
                 THEN ingredients[pantry]
                 ELSE Append(ingredients[pantry], call'.args[1])]_vars

\* the latest call gave an Ingredient of an unknown category, which is now the
\* last of the pantry list, after another one
C13_Witness ==
  /\ call.op = "add_ingredient"
  /\ call.args[1].category \notin CategoryKeys
  /\ Len(ingredients[pantry]) >= 2
  /\ ingredients[pantry][Len(ingredients[pantry])] = call.args[1]

\* the categories whose loop body would return for the name
MatchingCategories(lowered) ==
  {k \in DOMAIN CATEGORIES : CategoryMatches(lowered, CATEGORIES[k].ingredients)}

\* C12: the category _detect_category returns is decided by the name and the
\* order of the categories (proteins, carbs, produce, dairy, pantry) alone:
\* whatever order the terms of each vocabulary set are visited in, it is the
\* first category, in that order, that holds the name or a term that is a
\* substring of the name or has the name as a substring, and pantry if there
\* is none; names with matches in several categories included.
C12_TermOrderIrrelevant ==
  cpc = "returned" =>
    /\ detected = detect_from(name_lower, 1)
    /\ detected = IF MatchingCategories(name_lower) = {} THEN pantry
                  ELSE CATEGORIES[SetMin(MatchingCategories(name_lower))].category

\* a name with matches in several categories was classified by a partial
\* match, under a seed that does not visit the terms in the table order
C12_Witness ==
  /\ cpc = "returned"
  /\ hash_seed[1] > 0 /\ hash_seed[2]
  /\ Cardinality(MatchingCategories(name_lower)) > 1
  /\ name_lower \notin CATEGORIES[category_k].ingredients
  /\ term_j > 1

=============================================================================
